---- MODULE Spec2Model ----
(***************************************************************************)
(* Colour palette generator: the colour codec (rgb_to_hex, hex_to_rgb),    *)
(* the dominant-colour extraction (get_dominant_colors,                    *)
(* get_dominant_colors_v2, get_dominant_colors_v3), the contrast checker,  *)
(* the script runs of the three application variants that call them, and   *)
(* the sessions of the two variants that keep a palette history.           *)
(*                                                                         *)
(* Numbers that are floats in the program are kept exact here: a weight    *)
(* or an HLS component is a fraction [n, d] with d > 0, and a cluster      *)
(* centre is the channel sums of its members over their number.            *)
(***************************************************************************)
EXTENDS Integers, Sequences, FiniteSets, TLC

\* ---------------------------------------------------------------- bounds
\* Number of sampled pixels (150 * 150 in the program, after resize).
NumPixels == 4
\* Largest colour count the slider is moved to (the slider allows up to 10).
MaxK == 4
\* Longest string handed to hex_to_rgb.
MaxStrLen == 7
\* Steps the channel range is cut into for the colours of the contrast checker.
NumLevels == 2
\* Longest palette history a session is followed to.
MaxHistory == 2

\* ------------------------------------------------------ program constants
SliderMin == 3
SliderMax == 10
SliderDefault == 5
RandomState == 42

Min(a, b) == IF a <= b THEN a ELSE b
Max(a, b) == IF a >= b THEN a ELSE b

\* The value None.
None == <<>>

\* ------------------------------------------------------------ ColorCodec
HexChars == <<"0", "1", "2", "3", "4", "5", "6", "7",
              "8", "9", "a", "b", "c", "d", "e", "f">>
UpperHexChars == <<"0", "1", "2", "3", "4", "5", "6", "7",
                   "8", "9", "A", "B", "C", "D", "E", "F">>

IsHexDigit(c) == \E i \in 1..16 : HexChars[i] = c \/ UpperHexChars[i] = c
HexDigitValue(c) == (CHOOSE i \in 1..16 : HexChars[i] = c \/ UpperHexChars[i] = c) - 1

\* '{:x}' of a non-negative integer: no padding.
RECURSIVE FormatHex(_)
FormatHex(v) ==
    IF v < 16 THEN <<HexChars[v + 1]>>
    ELSE FormatHex(v \div 16) \o <<HexChars[(v % 16) + 1]>>

\* '{:02x}': lowercase hexadecimal, zero-padded to a width of at least 2.
\* (FormatHex02_NoPad: the faulty variant '{:x}', without the padding.)
FormatHex02_NoPad(v) == FormatHex(v)
FormatHex02(v) ==
    LET d == FormatHex(v) IN IF Len(d) < 2 THEN <<"0">> \o d ELSE d

\* rgb_to_hex: '#{:02x}{:02x}{:02x}'.format(int(r), int(g), int(b)).
rgb_to_hex(rgb) ==
    <<"#">> \o FormatHex02(rgb[1]) \o FormatHex02(rgb[2]) \o FormatHex02(rgb[3])

\* str.lstrip('#'): every leading '#' is removed.
RECURSIVE LStripHash(_)
LStripHash(s) ==
    IF s # <<>> /\ Head(s) = "#" THEN LStripHash(Tail(s)) ELSE s

\* s[i:j] with 0-based i, j as in Python: clipped to the string.
Slice(s, i, j) == SubSeq(s, i + 1, Min(j, Len(s)))

IsSpace(c) == c = " "

\* int(t, 16) for a string t of at most two characters: surrounding
\* whitespace and one leading sign are accepted, the rest must be hex digits
\* and there must be at least one.
ParseInt16(t) ==
    IF Len(t) = 1 /\ IsHexDigit(t[1])
        THEN [ok |-> TRUE, val |-> HexDigitValue(t[1])]
    ELSE IF Len(t) = 2 /\ IsHexDigit(t[1]) /\ IsHexDigit(t[2])
        THEN [ok |-> TRUE, val |-> 16 * HexDigitValue(t[1]) + HexDigitValue(t[2])]
    ELSE IF Len(t) = 2 /\ IsHexDigit(t[1]) /\ IsSpace(t[2])
        THEN [ok |-> TRUE, val |-> HexDigitValue(t[1])]
    ELSE IF Len(t) = 2 /\ (IsSpace(t[1]) \/ t[1] = "+") /\ IsHexDigit(t[2])
        THEN [ok |-> TRUE, val |-> HexDigitValue(t[2])]
    ELSE IF Len(t) = 2 /\ t[1] = "-" /\ IsHexDigit(t[2])
        THEN [ok |-> TRUE, val |-> 0 - HexDigitValue(t[2])]
    ELSE [ok |-> FALSE, val |-> 0]

\* hex_to_rgb: strip the '#'s, then int(.., 16) of the slices [0:2], [2:4]
\* and [4:6]. ok = FALSE stands for the ValueError int() raises.
hex_to_rgb(hex_color) ==
    LET h == LStripHash(hex_color)
        r == ParseInt16(Slice(h, 0, 2))
        g == ParseInt16(Slice(h, 2, 4))
        b == ParseInt16(Slice(h, 4, 6))
    IN  IF r.ok /\ g.ok /\ b.ok
        THEN [ok |-> TRUE, rgb |-> <<r.val, g.val, b.val>>]
        ELSE [ok |-> FALSE, rgb |-> None]

\* ------------------------------------------------- colorsys.rgb_to_hls
Max3(p) == Max(p[1], Max(p[2], p[3]))
Min3(p) == Min(p[1], Min(p[2], p[3]))

Frac(n, d) == [n |-> n, d |-> d]
FracLess(a, b) == a.n * b.d < b.n * a.d
FracEq(a, b) == a.n * b.d = b.n * a.d
FracLeq(a, b) == a.n * b.d <= b.n * a.d

\* colorsys.rgb_to_hls(r/255, g/255, b/255) as <<h, l, s>>.
rgb_to_hls(p) ==
    LET maxc == Max3(p)
        minc == Min3(p)
        sumc == maxc + minc
        rangec == maxc - minc
        l == Frac(sumc, 510)
        s == IF sumc <= 255 THEN Frac(rangec, sumc) ELSE Frac(rangec, 510 - sumc)
        h6 == IF p[1] = maxc THEN p[2] - p[3]
              ELSE IF p[2] = maxc THEN 2 * rangec + (p[3] - p[1])
              ELSE 4 * rangec + (p[1] - p[2])
    IN  IF minc = maxc THEN <<Frac(0, 1), l, Frac(0, 1)>>
        ELSE <<Frac(h6 % (6 * rangec), 6 * rangec), l, s>>

\* ------------------------------------------------------- list.sort, Counter
\* key(a) < key(b), or key(a) > key(b) under reverse=True.
KeyBefore(ka, kb, reverse) == IF reverse THEN FracLess(kb, ka) ELSE FracLess(ka, kb)
KeyBeforeOrEqual(ka, kb, reverse) == ~KeyBefore(kb, ka, reverse)

\* Insert index i into the sorted index list t before the first index whose
\* key must come after key i; indices whose keys equal key i stay in front.
RECURSIVE InsertSorted(_, _, _, _)
InsertSorted(t, i, keys, reverse) ==
    IF t = <<>> THEN <<i>>
    ELSE IF KeyBefore(keys[i], keys[Head(t)], reverse) THEN <<i>> \o t
    ELSE <<Head(t)>> \o InsertSorted(Tail(t), i, keys, reverse)

\* Faulty variant: i goes in front of the indices with an equal key, which
\* reverses their order.
RECURSIVE InsertSortedEager(_, _, _, _)
InsertSortedEager(t, i, keys, reverse) ==
    IF t = <<>> THEN <<i>>
    ELSE IF KeyBeforeOrEqual(keys[i], keys[Head(t)], reverse) THEN <<i>> \o t
    ELSE <<Head(t)>> \o InsertSortedEager(Tail(t), i, keys, reverse)

RECURSIVE SortedIndices(_, _, _, _)
SortedIndices(done, i, keys, reverse) ==
    IF i > Len(keys) THEN done
    ELSE SortedIndices(InsertSorted(done, i, keys, reverse), i + 1, keys, reverse)

RECURSIVE SortedIndicesEager(_, _, _, _)
SortedIndicesEager(done, i, keys, reverse) ==
    IF i > Len(keys) THEN done
    ELSE SortedIndicesEager(InsertSortedEager(done, i, keys, reverse), i + 1, keys, reverse)

\* list.sort(key=.., reverse=..) of s, keys[i] being key(s[i]): a stable
\* sort, ascending by key, or descending under reverse=True; elements with
\* equal keys keep their order either way.
\* (ListSort_Unstable: the faulty variant that does not keep that order.)
Permuted(s, ix) == [j \in 1..Len(ix) |-> s[ix[j]]]
ListSort_Unstable(s, keys, reverse) == Permuted(s, SortedIndicesEager(<<>>, 1, keys, reverse))
ListSort(s, keys, reverse) == Permuted(s, SortedIndices(<<>>, 1, keys, reverse))

RECURSIVE CountOf(_, _)
CountOf(s, x) ==
    IF s = <<>> THEN 0
    ELSE (IF Head(s) = x THEN 1 ELSE 0) + CountOf(Tail(s), x)

\* The keys of Counter(s) in insertion order: order of first occurrence.
RECURSIVE FirstOccurrences(_, _)
FirstOccurrences(s, seen) ==
    IF s = <<>> THEN <<>>
    ELSE IF Head(s) \in seen THEN FirstOccurrences(Tail(s), seen)
    ELSE <<Head(s)>> \o FirstOccurrences(Tail(s), seen \cup {Head(s)})

\* Counter(labels).items(): <<label, count>> pairs in insertion order.
\* (CounterItems_DropRepeats: the faulty variant that counts each label once.)
CountEach(labels, keys) == [i \in 1..Len(keys) |-> <<keys[i], CountOf(labels, keys[i])>>]
CountEach_Once(labels, keys) == [i \in 1..Len(keys) |-> <<keys[i], 1>>]
CounterItems_DropRepeats(labels) == CountEach_Once(labels, FirstOccurrences(labels, {}))
CounterItems(labels) == CountEach(labels, FirstOccurrences(labels, {}))

\* ------------------------------------------------- sklearn.cluster.KMeans
\* The pixels an upload is resampled to are drawn from these colours.
Black == <<0, 0, 0>>
Red == <<255, 0, 0>>
Green == <<0, 255, 0>>
Yellow == <<255, 255, 0>>
Colours == {Black, Red, Green, Yellow}

\* image.resize((150, 150)) then reshape((-1, 3)): a list of NumPixels pixels.
Images == [1..NumPixels -> Colours]

DistinctPixels(X) == {X[i] : i \in 1..Len(X)}

RECURSIVE SumChannel(_, _, _, _)
SumChannel(X, f, lab, ch) ==
    IF X = <<>> THEN 0
    ELSE (IF f[Head(X)] = lab THEN Head(X)[ch] ELSE 0) + SumChannel(Tail(X), f, lab, ch)

RECURSIVE Members(_, _, _)
Members(X, f, lab) ==
    IF X = <<>> THEN 0
    ELSE (IF f[Head(X)] = lab THEN 1 ELSE 0) + Members(Tail(X), f, lab)

\* The mean of a cluster's members, kept exact: channel sums s over count n.
Centre(X, f, lab) ==
    [s |-> <<SumChannel(X, f, lab, 1), SumChannel(X, f, lab, 2), SumChannel(X, f, lab, 3)>>,
     n |-> Members(X, f, lab)]

\* n^2 times the squared Euclidean distance from pixel x to centre c.
ScaledSqDist(x, c) ==
    (c.n * x[1] - c.s[1]) * (c.n * x[1] - c.s[1])
  + (c.n * x[2] - c.s[2]) * (c.n * x[2] - c.s[2])
  + (c.n * x[3] - c.s[3]) * (c.n * x[3] - c.s[3])

\* x is no farther from centre a than from centre b.
NoFarther(x, a, b) == ScaledSqDist(x, a) * b.n * b.n <= ScaledSqDist(x, b) * a.n * a.n

\* A converged run of Lloyd's algorithm: equal pixels share a label (f maps
\* pixel values), as many clusters own a pixel as the data allows, each
\* centre is the mean of its members and each pixel has a nearest centre.
Centres(X, f) == [lab \in {f[x] : x \in DOMAIN f} |-> Centre(X, f, lab)]
EachAtNearest(f, centres) ==
    \A x \in DOMAIN f : \A lab \in DOMAIN centres : NoFarther(x, centres[f[x]], centres[lab])
IsConverged(X, k, f) ==
    /\ Cardinality({f[x] : x \in DOMAIN f}) = Min(k, Cardinality(DOMAIN f))
    /\ EachAtNearest(f, Centres(X, f))

RECURSIVE MaxOfSeq(_)
MaxOfSeq(a) == IF a = <<>> THEN -1 ELSE Max(Head(a), MaxOfSeq(Tail(a)))

\* The ways to number d items by cluster, counting the clusters up from 0 in
\* order of first occurrence.
RECURSIVE CountingUp(_)
CountingUp(d) ==
    IF d = 0 THEN {<<>>}
    ELSE UNION {{Append(a, v) : v \in 0..(MaxOfSeq(a) + 1)} : a \in CountingUp(d - 1)}

\* The number a cluster gets follows the order the initial centres were
\* drawn in and means nothing. Two numberings of each clustering are
\* followed: counting up from 0 by first occurrence in the pixel list, and
\* counting down from k - 1.
IndexOf(order, x) == CHOOSE j \in 1..Len(order) : order[j] = x
LabellingsUp(X, k, order) ==
    {g \in {[x \in DistinctPixels(X) |-> a[IndexOf(order, x)]] :
              a \in {c \in CountingUp(Len(order)) : MaxOfSeq(c) = Min(k, Len(order)) - 1}} :
        IsConverged(X, k, g)}
CountedDown(k, up) == up \cup {[x \in DOMAIN g |-> (k - 1) - g[x]] : g \in up}
Labellings(X, k) == CountedDown(k, LabellingsUp(X, k, FirstOccurrences(X, {})))

FitResult(X, k, random_state, f) ==
    [X |-> X, n_clusters |-> k, random_state |-> random_state,
     labels_ |-> [i \in 1..Len(X) |-> f[X[i]]],
     cluster_centers_ |-> Centres(X, f)]

\* Every result KMeans(n_clusters=k).fit(X) can settle on; which one depends
\* on the centres the random state makes it start from. cluster_centers_
\* keeps the rows of the clusters that own a pixel: the callers read no other.
KMeansOutcomes(X, k, random_state) ==
    {FitResult(X, k, random_state, f) : f \in Labellings(X, k)}

\* No estimator fitted yet.
NoFit == [X |-> <<>>, n_clusters |-> 0, random_state |-> 0,
          labels_ |-> <<>>, cluster_centers_ |-> <<>>]

\* KMeans(n_clusters=k, random_state=random_state, n_init=10).fit(X), given
\* the previous fit of the session: an integer random state makes the fit a
\* function of (X, k, random_state), so the same call returns the same result.
\* (KMeansFit_Unseeded: the variant with random_state=None, drawn afresh.)
KMeansFit_Unseeded(X, k, random_state, prev) == KMeansOutcomes(X, k, random_state)
KMeansFit(X, k, random_state, prev) ==
    IF prev.n_clusters = k /\ prev.X = X /\ prev.random_state = random_state
    THEN {prev}
    ELSE KMeansOutcomes(X, k, random_state)

\* ndarray.astype(int) of a centre: each channel truncated.
AsTypeInt(c) == <<c.s[1] \div c.n, c.s[2] \div c.n, c.s[3] \div c.n>>

\* ------------------------------------------------------ ClusterExtractor
SortKeys == {"Frequency", "Hue", "Lightness", "Saturation"}

\* (count / total_pixels) * 100, kept as a fraction.
Percentage(count, total_pixels) == Frac(count * 100, total_pixels)

\* The loop over label_counts.items(): one entry per label that occurs, in
\* the Counter's insertion order.
ColorEntry(color, count, total_pixels) ==
    [rgb |-> color, hex |-> rgb_to_hex(color), percent |-> Percentage(count, total_pixels)]
EntriesOf(cluster_centers, label_counts, total_pixels) ==
    [i \in 1..Len(label_counts) |->
        ColorEntry(AsTypeInt(cluster_centers[label_counts[i][1]]), label_counts[i][2], total_pixels)]
ColorEntries(fit) == EntriesOf(fit.cluster_centers_, CounterItems(fit.labels_), Len(fit.X))

PercentKeys(data) == [i \in 1..Len(data) |-> data[i].percent]
\* 1 = hue, 2 = lightness, 3 = saturation of rgb_to_hls.
HlsKeys(data, c) == [i \in 1..Len(data) |-> rgb_to_hls(data[i].rgb)[c]]

\* sort(key=percent, reverse=True): descending by weight.
\* (SortByPercent_Ascending: the faulty variant without reverse=True.)
SortByPercent_Ascending(data) == ListSort(data, PercentKeys(data), FALSE)
SortByPercent(data) == ListSort(data, PercentKeys(data), TRUE)

\* The second sort of get_dominant_colors_v2 / _v3.
\* (SortBySelection_Unstable: the faulty variant with an unstable sort.)
SortBySelection_Unstable(data, sort_by) ==
    IF sort_by = "Hue" THEN ListSort_Unstable(data, HlsKeys(data, 1), FALSE)
    ELSE IF sort_by = "Lightness" THEN ListSort_Unstable(data, HlsKeys(data, 2), FALSE)
    ELSE IF sort_by = "Saturation" THEN ListSort_Unstable(data, HlsKeys(data, 3), FALSE)
    ELSE data
SortBySelection(data, sort_by) ==
    IF sort_by = "Hue" THEN ListSort(data, HlsKeys(data, 1), FALSE)
    ELSE IF sort_by = "Lightness" THEN ListSort(data, HlsKeys(data, 2), FALSE)
    ELSE IF sort_by = "Saturation" THEN ListSort(data, HlsKeys(data, 3), FALSE)
    ELSE data

\* get_dominant_colors_v2(image, num_colors, sort_by), from the fit of its
\* line 43 on: entries, sort by percent descending, then the chosen sort.
get_dominant_colors_v2(fit, sort_by) ==
    IF sort_by # "Frequency"
    THEN SortBySelection(SortByPercent(ColorEntries(fit)), sort_by)
    ELSE SortByPercent(ColorEntries(fit))

\* get_dominant_colors_v3: the same function in the v3 file.
get_dominant_colors_v3(fit, sort_by) ==
    IF sort_by # "Frequency"
    THEN SortBySelection(SortByPercent(ColorEntries(fit)), sort_by)
    ELSE SortByPercent(ColorEntries(fit))

\* get_dominant_colors(image, num_colors) of the first variant, from its fit
\* on: the centres in descending order of their label counts. The function
\* returns the colours; the entry keeps the count it was ranked by as percent,
\* and the hex string main derives from the colour.
get_dominant_colors(fit) == SortByPercent(ColorEntries(fit))

\* ------------------------------------------------ the contrast checker
\* Luminances are kept in fixed point. A linearised channel is a number of
\* ten-thousandths, rounded down; a luminance, whose weights have four
\* decimals, is a number of hundred-millionths.
LinearUnit == 10000

\* pow((x + 0.055) / 1.055, 2.4) for x = v / 255, v = 11..255, in
\* ten-thousandths.
PowTable == <<
       33,    36,    40,    43,    47,    51,    56,    60,    65,    69,    74,    80,
       85,    91,    97,   103,   109,   116,   122,   129,   137,   144,   152,   159,
      168,   176,   185,   193,   202,   212,   221,   231,   241,   251,   262,   273,
      284,   295,   307,   318,   331,   343,   356,   368,   382,   395,   409,   423,
      437,   451,   466,   481,   497,   512,   528,   544,   561,   578,   595,   612,
      630,   648,   666,   684,   703,   722,   742,   761,   781,   802,   822,   843,
      865,   886,   908,   930,   953,   975,   998,  1022,  1046,  1070,  1094,  1119,
     1144,  1169,  1195,  1221,  1247,  1274,  1301,  1328,  1356,  1384,  1412,  1441,
     1470,  1499,  1529,  1559,  1589,  1620,  1651,  1682,  1714,  1746,  1778,  1811,
     1844,  1878,  1912,  1946,  1980,  2015,  2050,  2086,  2122,  2158,  2195,  2232,
     2269,  2307,  2345,  2383,  2422,  2462,  2501,  2541,  2581,  2622,  2663,  2704,
     2746,  2788,  2831,  2874,  2917,  2961,  3005,  3049,  3094,  3139,  3185,  3231,
     3277,  3324,  3371,  3419,  3467,  3515,  3564,  3613,  3662,  3712,  3762,  3813,
     3864,  3915,  3967,  4019,  4072,  4125,  4178,  4232,  4286,  4341,  4396,  4452,
     4507,  4564,  4620,  4677,  4735,  4793,  4851,  4910,  4969,  5028,  5088,  5149,
     5209,  5271,  5332,  5394,  5457,  5520,  5583,  5647,  5711,  5775,  5840,  5906,
     5972,  6038,  6104,  6172,  6239,  6307,  6375,  6444,  6514,  6583,  6653,  6724,
     6795,  6866,  6938,  7011,  7083,  7156,  7230,  7304,  7379,  7454,  7529,  7605,
     7681,  7758,  7835,  7912,  7991,  8069,  8148,  8227,  8307,  8387,  8468,  8549,
     8631,  8713,  8796,  8879,  8962,  9046,  9130,  9215,  9301,  9386,  9473,  9559,
     9646,  9734,  9822,  9911, 10000>>

\* x / 12.92 if x <= 0.03928 else pow((x + 0.055) / 1.055, 2.4), x = v / 255.
Linearise(v) ==
    IF v * 100000 <= 3928 * 255
    THEN (v * 100 * LinearUnit) \div (255 * 1292)
    ELSE PowTable[v - 10]

calculate_luminance(hex_color) ==
    LET rgb == hex_to_rgb(hex_color).rgb
    IN  2126 * Linearise(rgb[1]) + 7152 * Linearise(rgb[2]) + 722 * Linearise(rgb[3])

\* 0.05 in hundred-millionths.
Flare == 5000000

\* Faulty variant: background over text, whichever is lighter.
ContrastRatio_Directed(lum1, lum2) == Frac(lum1 + Flare, lum2 + Flare)
\* (lum1 + 0.05) / (lum2 + 0.05) if lum1 > lum2 else (lum2 + 0.05) / (lum1 + 0.05)
ContrastRatio(lum1, lum2) ==
    IF lum1 > lum2
    THEN Frac(lum1 + Flare, lum2 + Flare)
    ELSE Frac(lum2 + Flare, lum1 + Flare)

\* contrast_ratio >= 4.5, the test that picks the text under the sample.
MeetsAA(contrast_ratio) == 2 * contrast_ratio.n >= 9 * contrast_ratio.d

\* ------------------------------------------------------ the applications
Variants == {"v1", "v2", "v3"}

\* The 60-30-10 table: the role of row i is decided by i alone.
RoleOf(i) == IF i = 1 THEN "Dominant" ELSE IF i = 2 THEN "Secondary" ELSE "Accent"
RoleTable(data) ==
    [i \in 1..Len(data) |-> [role |-> RoleOf(i), hex |-> data[i].hex, percent |-> data[i].percent]]

HexColors(data) == [i \in 1..Len(data) |-> data[i].hex]

\* (UpdateHistory_Always: the faulty variant that appends on every run.)
UpdateHistory_Always(history, name, hex_colors) ==
    Append(history, [name |-> name, colors |-> hex_colors])
\* "Update History": append unless the last entry equals the new one.
UpdateHistory(history, name, hex_colors) ==
    LET palette_entry == [name |-> name, colors |-> hex_colors]
    IN  IF history = <<>> \/ history[Len(history)] # palette_entry
        THEN Append(history, palette_entry)
        ELSE history

VARIABLES
    variant,          \* which of the three scripts the session runs
    image,            \* the pixels of the uploaded file, None without one
    file_name,        \* uploaded_file.name
    num_colors,       \* the slider
    sort_by,          \* the selectbox
    kmeans,           \* the last fitted estimator
    color_data,       \* the palette the last run displayed
    role_table,       \* the rows of the 60-30-10 table of the last run
    palette_history,  \* st.session_state.palette_history
    last_run,         \* "none" before the first script run; then "fresh", or
                      \* "repeat" when the run before it had the same inputs
    c_pc,             \* codec calls: which call comes next
    c_rgb,            \* codec calls: the pixel handed to rgb_to_hex
    c_hex,            \* codec calls: the string handed to hex_to_rgb
    c_back,           \* codec calls: what hex_to_rgb returned
    bg_color,         \* contrast checker: the "Background Color" selectbox
    fg_color,         \* contrast checker: the "Text Color" selectbox
    contrast_ratio,   \* contrast checker: the ratio under the sample, None before
    meets_aa          \* contrast checker: whether the ">= 4.5:1" text is shown

appVars == <<variant, image, file_name, num_colors, sort_by, kmeans,
             color_data, role_table, palette_history, last_run>>
codecVars == <<c_pc, c_rgb, c_hex, c_back>>
contrastVars == <<bg_color, fg_color, contrast_ratio, meets_aa>>
vars == <<variant, image, file_name, num_colors, sort_by, kmeans,
          color_data, role_table, palette_history, last_run, c_pc, c_rgb, c_hex, c_back,
          bg_color, fg_color, contrast_ratio, meets_aa>>

NoResult == [ok |-> FALSE, rgb |-> None]

CodecIdle ==
    /\ c_pc = "idle"
    /\ c_rgb = None
    /\ c_hex = <<>>
    /\ c_back = NoResult

ContrastIdle ==
    /\ bg_color = <<>>
    /\ fg_color = <<>>
    /\ contrast_ratio = None
    /\ meets_aa = FALSE

\* A session before its first script run: the widgets at some setting, a
\* file uploaded or not.
Init ==
    /\ variant \in Variants
    /\ image \in Images \cup {None}
    /\ file_name = (IF image = None THEN "" ELSE "photo.png")
    /\ num_colors \in SliderMin..Min(SliderMax, MaxK)
    /\ num_colors <= NumPixels     \* fit() needs n_samples >= n_clusters; 22500 >= 10
    /\ sort_by \in SortKeys
    /\ kmeans = NoFit
    /\ color_data = <<>>
    /\ role_table = <<>>
    /\ palette_history = <<>>
    /\ last_run = "none"
    /\ CodecIdle
    /\ ContrastIdle

\* The widgets and the upload stay as they are from one run to the next, so
\* every run after the first repeats the inputs of the one before.
NextRun == IF last_run = "none" THEN "fresh" ELSE "repeat"

\* A run that finds no uploaded file shows the hint and nothing else.
RunWithoutUpload ==
    /\ image = None
    /\ color_data' = <<>>
    /\ role_table' = <<>>
    /\ UNCHANGED <<kmeans, palette_history>>

\* One run of main() of color_pallet_generator.py: sort_by is read from the
\* selectbox and not used; no history, no role table.
MainV1 ==
    /\ variant = "v1"
    /\ last_run' = NextRun
    /\ \/ RunWithoutUpload
       \/ /\ image # None
          /\ \E fit \in KMeansFit(image, num_colors, RandomState, kmeans) :
                /\ kmeans' = fit
                /\ color_data' = get_dominant_colors(fit)
          /\ UNCHANGED <<role_table, palette_history>>
    /\ UNCHANGED <<variant, image, file_name, num_colors, sort_by, codecVars, contrastVars>>

\* One run of main() of color_palette_generator_v2.py.
MainV2 ==
    /\ variant = "v2"
    /\ last_run' = NextRun
    /\ \/ RunWithoutUpload
       \/ /\ image # None
          /\ \E fit \in KMeansFit(image, num_colors, RandomState, kmeans) :
                /\ kmeans' = fit
                /\ color_data' = get_dominant_colors_v2(fit, sort_by)
          /\ palette_history' = UpdateHistory(palette_history, file_name, HexColors(color_data'))
          /\ role_table' = RoleTable(color_data')
    /\ UNCHANGED <<variant, image, file_name, num_colors, sort_by, codecVars, contrastVars>>

\* One run of main() of color_palette_generator_v3.py.
MainV3 ==
    /\ variant = "v3"
    /\ last_run' = NextRun
    /\ \/ RunWithoutUpload
       \/ /\ image # None
          /\ \E fit \in KMeansFit(image, num_colors, RandomState, kmeans) :
                /\ kmeans' = fit
                /\ color_data' = get_dominant_colors_v3(fit, sort_by)
          /\ palette_history' = UpdateHistory(palette_history, file_name, HexColors(color_data'))
          /\ role_table' = RoleTable(color_data')
    /\ UNCHANGED <<variant, image, file_name, num_colors, sort_by, codecVars, contrastVars>>

Next == MainV1 \/ MainV2 \/ MainV3

Spec == Init /\ [][Next]_vars

\* ------------------------------------------------- calls of the codec
\* Every byte value occurs in every channel position.
CodecPixels == {<<a, 255 - a, (a * 7) % 256>> : a \in 0..255}

\* The characters the strings are made of: the hash, two hex digits, one that is none.
Alphabet == {"#", "a", "F", "g"}
HexStrings == UNION {[1..n -> Alphabet] : n \in 0..MaxStrLen}

AppIdle ==
    /\ variant = "v1"
    /\ image = None
    /\ file_name = ""
    /\ num_colors = SliderMin
    /\ sort_by = "Frequency"
    /\ kmeans = NoFit
    /\ color_data = <<>>
    /\ role_table = <<>>
    /\ palette_history = <<>>
    /\ last_run = "none"

\* Either a pixel to format (and parse back), or a string to parse.
InitCodec ==
    /\ AppIdle
    /\ ContrastIdle
    /\ c_back = NoResult
    /\ \/ c_pc = "rgb" /\ c_rgb \in CodecPixels /\ c_hex = <<>>
       \/ c_pc = "hex" /\ c_rgb = None /\ c_hex \in HexStrings

CallRgbToHex ==
    /\ c_pc = "rgb"
    /\ c_hex' = rgb_to_hex(c_rgb)
    /\ c_pc' = "formatted"
    /\ UNCHANGED <<c_rgb, c_back, appVars, contrastVars>>

CallHexToRgb ==
    /\ c_pc \in {"hex", "formatted"}
    /\ c_back' = hex_to_rgb(c_hex)
    /\ c_pc' = (IF c_pc = "hex" THEN "parsed" ELSE "roundtrip")
    /\ UNCHANGED <<c_rgb, c_hex, appVars, contrastVars>>

NextCodec == CallRgbToHex \/ CallHexToRgb

SpecCodec == InitCodec /\ [][NextCodec]_vars

\* ------------------------------------------- runs of the contrast checker
\* The channel values the colours of the selectboxes are made of: both ends
\* of the range, the two values around the 0.03928 threshold, and
\* NumLevels - 1 equal steps between the ends.
ChannelLevels == {0, 10, 11, 255} \cup {(i * 255) \div NumLevels : i \in 1..(NumLevels - 1)}
ContrastPixels == {<<r, g, b>> : r \in ChannelLevels, g \in ChannelLevels, b \in ChannelLevels}
ContrastColors == {rgb_to_hex(p) : p \in ContrastPixels}

\* The palette is on the page; the two selectboxes are at some choice and
\* the script has not reached the checker yet.
InitContrast ==
    /\ AppIdle
    /\ CodecIdle
    /\ bg_color \in ContrastColors
    /\ fg_color \in ContrastColors
    /\ contrast_ratio = None
    /\ meets_aa = FALSE

\* Lines 234-243 for the selectboxes at bg, fg.
ShowContrast(bg, fg) ==
    /\ contrast_ratio' = ContrastRatio(calculate_luminance(bg), calculate_luminance(fg))
    /\ meets_aa' = MeetsAA(contrast_ratio')

\* The script reaches the checker with the selectboxes as they are.
CheckContrast ==
    /\ contrast_ratio = None
    /\ ShowContrast(bg_color, fg_color)
    /\ UNCHANGED <<bg_color, fg_color, appVars, codecVars>>

\* The user exchanges the two choices and the script runs again.
ExchangeColors ==
    /\ contrast_ratio # None
    /\ bg_color' = fg_color
    /\ fg_color' = bg_color
    /\ ShowContrast(bg_color', fg_color')
    /\ UNCHANGED <<appVars, codecVars>>

NextContrast == CheckContrast \/ ExchangeColors

SpecContrast == InitContrast /\ [][NextContrast]_vars

\* ------------------------------------------------------------- sessions
\* One browser session of a variant that keeps a history: each interaction
\* with a widget sets the widget and runs main() from the top.
SessionVariants == {"v2", "v3"}

\* The files the user has at hand: one of a single colour, one of three.
SolidImage == [i \in 1..NumPixels |-> Black]
MixedImage == [i \in 1..NumPixels |-> IF i = NumPixels THEN Red
                                      ELSE IF i = NumPixels - 1 THEN Green ELSE Black]
Gallery == {SolidImage, MixedImage}
FileNames == {"a.png", "b.png"}

SliderRange == {k \in SliderMin..Min(SliderMax, MaxK) : k <= NumPixels}

\* "Clear History": st.session_state.palette_history = [].
ClearHistory_Nothing(history) == history
ClearHistory(history) == <<>>

\* The first run has not happened: nothing uploaded, the widgets at their
\* defaults (the slider as near to its default as the bound lets it be).
InitSession ==
    /\ variant \in SessionVariants
    /\ image = None
    /\ file_name = ""
    /\ num_colors = Min(SliderDefault, Min(SliderMax, Min(MaxK, NumPixels)))
    /\ sort_by = "Frequency"
    /\ kmeans = NoFit
    /\ color_data = <<>>
    /\ role_table = <<>>
    /\ palette_history = <<>>
    /\ last_run = "none"
    /\ CodecIdle
    /\ ContrastIdle

PaletteOf(v, fit, sort) ==
    IF v = "v2" THEN get_dominant_colors_v2(fit, sort) ELSE get_dominant_colors_v3(fit, sort)

\* main() from the line after the Clear History button to its end, for the
\* upload and the widget values given.
RunMain(img, name, k, sort) ==
    IF img = None
    THEN /\ color_data' = <<>>
         /\ role_table' = <<>>
         /\ UNCHANGED <<kmeans, palette_history>>
    ELSE \E fit \in KMeansFit(img, k, RandomState, kmeans) :
            /\ kmeans' = fit
            /\ color_data' = PaletteOf(variant, fit, sort)
            /\ palette_history' = UpdateHistory(palette_history, name, HexColors(color_data'))
            /\ role_table' = RoleTable(color_data')

\* No rerun is pending and the history has room for one more entry.
CanInteract == last_run # "clearing" /\ Len(palette_history) < MaxHistory

UploadFile ==
    /\ CanInteract
    /\ \E img \in Gallery, name \in FileNames :
          /\ <<img, name>> # <<image, file_name>>
          /\ image' = img
          /\ file_name' = name
          /\ RunMain(img, name, num_colors, sort_by)
    /\ last_run' = "fresh"
    /\ UNCHANGED <<variant, num_colors, sort_by, codecVars, contrastVars>>

RemoveFile ==
    /\ CanInteract
    /\ image # None
    /\ image' = None
    /\ file_name' = ""
    /\ RunMain(None, "", num_colors, sort_by)
    /\ last_run' = "fresh"
    /\ UNCHANGED <<variant, num_colors, sort_by, codecVars, contrastVars>>

MoveSlider ==
    /\ CanInteract
    /\ \E k \in SliderRange \ {num_colors} :
          /\ num_colors' = k
          /\ RunMain(image, file_name, k, sort_by)
    /\ last_run' = "fresh"
    /\ UNCHANGED <<variant, image, file_name, sort_by, codecVars, contrastVars>>

SelectSort ==
    /\ CanInteract
    /\ \E sort \in SortKeys \ {sort_by} :
          /\ sort_by' = sort
          /\ RunMain(image, file_name, num_colors, sort)
    /\ last_run' = "fresh"
    /\ UNCHANGED <<variant, image, file_name, num_colors, codecVars, contrastVars>>

\* A run that no change of these inputs caused (the first one, a download).
Rerun ==
    /\ last_run # "clearing"
    /\ RunMain(image, file_name, num_colors, sort_by)
    /\ last_run' = "repeat"
    /\ UNCHANGED <<variant, image, file_name, num_colors, sort_by, codecVars, contrastVars>>

\* The run in which the button returns True: it empties the history and
\* st.rerun() ends it there, before anything is drawn.
PressClearHistory ==
    /\ last_run # "clearing"
    /\ palette_history' = ClearHistory(palette_history)
    /\ last_run' = "clearing"
    /\ UNCHANGED <<variant, image, file_name, num_colors, sort_by, kmeans,
                   color_data, role_table, codecVars, contrastVars>>

\* The run st.rerun() asked for; the button returns False in it.
RerunAfterClear ==
    /\ last_run = "clearing"
    /\ RunMain(image, file_name, num_colors, sort_by)
    /\ last_run' = "cleared"
    /\ UNCHANGED <<variant, image, file_name, num_colors, sort_by, codecVars, contrastVars>>

NextSession ==
    \/ UploadFile
    \/ RemoveFile
    \/ MoveSlider
    \/ SelectSort
    \/ Rerun
    \/ PressClearHistory
    \/ RerunAfterClear

SpecSession == InitSession /\ [][NextSession]_vars

\* ------------------------------------------------------------ properties
\* The last run built a palette from an uploaded file.
Shown == last_run # "none" /\ image # None

RECURSIVE SumOfPercents(_)
SumOfPercents(data) ==
    IF data = <<>> THEN 0 ELSE Head(data).percent.n + SumOfPercents(Tail(data))

OccurringLabels == {kmeans.labels_[i] : i \in DOMAIN kmeans.labels_}
PixelsLabelled(lab) == {i \in DOMAIN kmeans.labels_ : kmeans.labels_[i] = lab}

\* The hundredfold pixel count of an entry, and how many entries or clusters
\* have a given colour and count.
EntriesLike(rgb, n) ==
    Cardinality({i \in DOMAIN color_data :
                    color_data[i].rgb = rgb /\ color_data[i].percent.n = n})
ClustersLike(rgb, n) ==
    Cardinality({lab \in OccurringLabels :
                    /\ AsTypeInt(kmeans.cluster_centers_[lab]) = rgb
                    /\ 100 * Cardinality(PixelsLabelled(lab)) = n})

\* The entries are the clusters of the fit, each once, none changed.
IsPermutationOfClusters ==
    /\ Len(color_data) = Cardinality(OccurringLabels)
    /\ \A i \in DOMAIN color_data :
          EntriesLike(color_data[i].rgb, color_data[i].percent.n)
              = ClustersLike(color_data[i].rgb, color_data[i].percent.n)

ComponentOf(sort_key) ==
    IF sort_key = "Hue" THEN 1 ELSE IF sort_key = "Lightness" THEN 2 ELSE 3

NonDecreasingIn(data, c) ==
    \A i, j \in DOMAIN data :
        i < j => FracLeq(rgb_to_hls(data[i].rgb)[c], rgb_to_hls(data[j].rgb)[c])

\* The first position of entry e in the list.
PositionIn(list, e) == CHOOSE i \in DOMAIN list : list[i] = e /\ \A j \in 1..(i - 1) : list[j] # e

\* Entries of data with equal component c are in the order the reference list
\* has them in, the heavier one first.
TiesInOrderOf(data, reference, c) ==
    \A i, j \in DOMAIN data :
        (i < j /\ FracEq(rgb_to_hls(data[i].rgb)[c], rgb_to_hls(data[j].rgb)[c]))
        => /\ FracLeq(data[j].percent, data[i].percent)
           /\ PositionIn(reference, data[i]) <= PositionIn(reference, data[j])

\* C1: for every image and every colour count k, the palette a run builds
\* has exactly k entries (also when the image has fewer than k colours).
C1_PaletteHasKEntries == Shown => Len(color_data) = num_colors

\* C2: every sampled pixel is counted in exactly one entry: the entries'
\* pixel counts are the sizes of the clusters and add up to the number of
\* sampled pixels, so each weight lies in [0, 100] and the weights sum to 100.
C2_WeightsPartitionPixels ==
    Shown =>
        /\ \A i \in DOMAIN color_data :
              /\ color_data[i].percent.d = Len(image)
              /\ color_data[i].percent.n >= 0
              /\ color_data[i].percent.n <= 100 * Len(image)
              /\ \E lab \in OccurringLabels :
                    color_data[i].percent.n = 100 * Cardinality(PixelsLabelled(lab))
        /\ Len(color_data) = Cardinality(OccurringLabels)
        /\ SumOfPercents(color_data) = 100 * Len(image)

C2_Witness ==
    /\ Shown
    /\ Len(color_data) >= 3
    /\ \E i \in DOMAIN color_data : color_data[i].percent.n >= 200

\* C3: built with sort key Hue, Lightness or Saturation, the palette of the
\* v2 and v3 functions is non-decreasing in that HLS component, and entries
\* with equal component are in the order the descending-by-weight list has
\* them in.
C3_SortedByComponentStably ==
    (Shown /\ variant \in {"v2", "v3"} /\ sort_by # "Frequency") =>
        /\ NonDecreasingIn(color_data, ComponentOf(sort_by))
        /\ TiesInOrderOf(color_data, get_dominant_colors_v2(kmeans, "Frequency"),
                         ComponentOf(sort_by))

C3_Witness ==
    /\ Shown
    /\ variant = "v2"
    /\ sort_by = "Hue"
    /\ color_data # get_dominant_colors_v2(kmeans, "Frequency")
    /\ \E i, j \in DOMAIN color_data :
          /\ i < j
          /\ color_data[i].rgb # color_data[j].rgb
          /\ FracEq(rgb_to_hls(color_data[i].rgb)[1], rgb_to_hls(color_data[j].rgb)[1])
          /\ FracLess(color_data[j].percent, color_data[i].percent)

\* C4: built with sort key Frequency (the first variant always is), the
\* palette is in descending order of weight and is a permutation of the
\* clusters the extraction produced.
C4_FrequencyOrder ==
    (Shown /\ (sort_by = "Frequency" \/ variant = "v1")) =>
        /\ \A i \in 1..(Len(color_data) - 1) :
              FracLeq(color_data[i + 1].percent, color_data[i].percent)
        /\ IsPermutationOfClusters

C4_Witness ==
    /\ Shown
    /\ sort_by = "Frequency"
    /\ Len(color_data) >= 3
    /\ FracLess(color_data[3].percent, color_data[1].percent)
    /\ color_data # ColorEntries(kmeans)

\* C5: whatever the sort key, the row labelled Dominant is an entry of
\* greatest weight and the row labelled Secondary one of second-greatest
\* weight (at most one row weighs more); all other rows are Accent.
C5_RolesFollowFrequency ==
    (Shown /\ variant \in {"v2", "v3"}) =>
        /\ Len(role_table) = Len(color_data)
        /\ \A i \in DOMAIN role_table :
              /\ role_table[i].role = "Dominant" =>
                    \A j \in DOMAIN role_table :
                        FracLeq(role_table[j].percent, role_table[i].percent)
              /\ role_table[i].role = "Secondary" =>
                    Cardinality({j \in DOMAIN role_table :
                        FracLess(role_table[i].percent, role_table[j].percent)}) <= 1
        /\ Cardinality({i \in DOMAIN role_table : role_table[i].role = "Dominant"}) = 1
        /\ Cardinality({i \in DOMAIN role_table : role_table[i].role = "Secondary"})
              = (IF Len(role_table) >= 2 THEN 1 ELSE 0)

\* C6: in every variant that offers the sort selectbox, choosing Hue,
\* Lightness or Saturation gives a palette non-decreasing in that component.
C6_OrderFollowsSortKey ==
    (Shown /\ sort_by # "Frequency") => NonDecreasingIn(color_data, ComponentOf(sort_by))

\* C7: no palette is returned when k is outside [3, 10] or exceeds the
\* number of distinct pixel colours of the sampled image.
C7_RejectsUnsatisfiableCount ==
    (/\ Shown
     /\ \/ num_colors \notin SliderMin..SliderMax
        \/ num_colors > Cardinality(DistinctPixels(image)))
    => color_data = <<>>

AllHexDigits(s) == \A i \in DOMAIN s : IsHexDigit(s[i])
\* At most one leading '#', then exactly 6 hex digits.
WellFormedHex(s) ==
    \/ Len(s) = 6 /\ AllHexDigits(s)
    \/ Len(s) = 7 /\ s[1] = "#" /\ AllHexDigits(Tail(s))

\* C8: hex_to_rgb returns a pixel for at most one leading '#' followed by
\* exactly 6 hex digits, and fails for every other string.
C8_RejectsMalformedHex ==
    c_pc = "parsed" => (c_back.ok <=> WellFormedHex(c_hex))

IsLowerHexDigit(c) == \E i \in 1..16 : HexChars[i] = c
IsHashAndSixLower(s) ==
    /\ Len(s) = 7
    /\ s[1] = "#"
    /\ \A i \in 2..7 : IsLowerHexDigit(s[i])

\* C10: for a pixel with channels in 0..255, rgb_to_hex gives '#' and exactly
\* 6 lowercase hex digits, and hex_to_rgb of that string gives the pixel
\* back; so the hex and rgb fields of a palette entry denote one colour.
C10_RoundTrip ==
    /\ c_pc \in {"formatted", "roundtrip"} => IsHashAndSixLower(c_hex)
    /\ c_pc = "roundtrip" => (c_back.ok /\ c_back.rgb = c_rgb)
    /\ \A i \in DOMAIN color_data :
          /\ IsHashAndSixLower(color_data[i].hex)
          /\ hex_to_rgb(color_data[i].hex) = [ok |-> TRUE, rgb |-> color_data[i].rgb]

C10_Witness ==
    /\ c_pc = "roundtrip"
    /\ c_rgb[1] < 16
    /\ c_rgb[2] >= 160
    /\ c_back.rgb = c_rgb

\* C11: the contrast ratio is symmetric in its two colours: the ratio shown
\* for background a and text b is the ratio the checker computes for
\* background b and text a, also when both luminances are equal, and the
\* ">= 4.5" verdict is the same for both orders.
C11_ContrastSymmetric ==
    contrast_ratio # None =>
        LET other == ContrastRatio(calculate_luminance(fg_color), calculate_luminance(bg_color))
        IN  /\ contrast_ratio = other
            /\ meets_aa = MeetsAA(other)

\* The checker has shown a ratio for two colours of different luminance,
\* the background the darker one, and the pair passes AA.
C11_Witness ==
    /\ contrast_ratio # None
    /\ calculate_luminance(bg_color) < calculate_luminance(fg_color)
    /\ meets_aa

\* The entry main() builds for the palette on the page.
DisplayedEntry == [name |-> file_name, colors |-> HexColors(color_data)]
RunDone == last_run \in {"fresh", "repeat", "cleared"}

\* C12: in a session, whatever the runs were (uploads, slider, sort key,
\* plain reruns, Clear History), no two adjacent history entries have the
\* same name and the same colour list, and after every run with a file
\* uploaded the last entry is the palette on the page.
C12_HistoryFollowsDisplay ==
    /\ \A i \in 1..(Len(palette_history) - 1) : palette_history[i] # palette_history[i + 1]
    /\ (RunDone /\ image # None) =>
          /\ palette_history # <<>>
          /\ palette_history[Len(palette_history)] = DisplayedEntry

\* A run that repeated the inputs of the one before it left a history of
\* two entries as it was; both are for the same file, in different orders.
C12_Witness ==
    /\ last_run = "repeat"
    /\ image # None
    /\ Len(palette_history) = 2
    /\ palette_history[1].name = palette_history[2].name
    /\ palette_history[1].colors # palette_history[2].colors

\* C13: pressing Clear History discards every entry recorded before the
\* press, and when the rerun it triggers has finished the history is empty
\* if no file is uploaded and otherwise is exactly the one entry of the
\* palette of the file still uploaded.
C13_ClearDiscardsAll ==
    [][/\ last_run' = "clearing" => palette_history' = <<>>
       /\ last_run' = "cleared" =>
             /\ image' = image
             /\ palette_history' = (IF image = None THEN <<>>
                                    ELSE <<[name |-> file_name, colors |-> HexColors(color_data')]>>)]_vars

\* The rerun after a press has finished with the three-colour file still
\* uploaded and the sort key moved off its default: entries were recorded
\* before the press, one is there now.
C13_Witness ==
    /\ last_run = "cleared"
    /\ image = MixedImage
    /\ sort_by = "Hue"
    /\ Len(palette_history) = 1

====
